---------------------------- MODULE Spec2Model ----------------------------
(***************************************************************************)
(* A model of IB2d's Python support module (src/Python/Supp.py): the       *)
(* regularised delta kernel, the support indexer, the Lagrangian point     *)
(* advection, the massive boundary integrator, the periodic finite         *)
(* differences D and DD, and the explicit advection-diffusion step.        *)
(*                                                                         *)
(* Real (floating point) quantities are modelled as exact rationals        *)
(* <<n, d>> in lowest terms with d > 0; a square root that is not rational *)
(* is rounded down to a multiple of 1/SqrtDen.  numpy arrays are           *)
(* functions over 0-based index ranges.                                    *)
(***************************************************************************)
EXTENDS Integers, Sequences, FiniteSets, TLC

VARIABLES
    kcall,      \* last call of a kernel-level pure function: arguments and result
    moveArgs,   \* the arguments the driver passes to the point advection
    lag,        \* the driver's Lagrangian point positions (xL_P, yL_P)
    lastMove,   \* last call of please_Move_Lagrangian_Point_Positions
    nMoves,     \* number of point-advection calls made
    massArgs,   \* the other arguments of the massive-boundary operations
    mass_info,  \* the caller's mass_info array object
    mVelocity,  \* the caller's mVelocity array object
    lastMass,   \* last call of a massive-boundary operation
    nMass,      \* number of massive-boundary calls made
    fdArgs,     \* the arguments of the pending finite-difference or transport call
    C,          \* the concentration field the driver holds
    lastFD,     \* last call of D, DD or please_Update_Adv_Diff_Concentration
    nAD         \* number of advection-diffusion steps made

vars == <<kcall, moveArgs, lag, lastMove, nMoves, massArgs, mass_info, mVelocity,
          lastMass, nMass, fdArgs, C, lastFD, nAD>>

---------------------------------------------------------------------------
(* Bounds of the model *)

\* largest support width (supp is even, 2..MaxSupp)
MaxSupp == 4
\* smallest and largest number of grid points per dimension
MinN == 4
MaxN == 5
\* denominator to which an irrational square root is rounded down
SqrtDen == 100
\* largest kernel argument, in whole cells (arguments span -(MaxCells+1)*dx .. (MaxCells+1)*dx)
MaxCells == 2
\* largest number of point-advection calls in a run
MaxMoves == 2
\* largest number of whole periods by which a coordinate is shifted
MaxShift == 1
\* largest number of massive-boundary position updates in a run
MaxMassSteps == 2
\* largest number of rows and of columns of a finite-difference input
MaxRows == 3
MaxCols == 4
\* largest number of advection-diffusion steps in a run
MaxADSteps == 2

---------------------------------------------------------------------------
(* Exact rational arithmetic standing in for numpy's float64 arithmetic *)

Abs(i) == IF i < 0 THEN -i ELSE i

RECURSIVE GCD(_, _)
GCD(a, b) == IF b = 0 THEN a ELSE GCD(b, a % b)

RNorm(n, d) ==
    LET s == IF d < 0 THEN -1 ELSE 1
        g == GCD(Abs(n), Abs(d))
    IN  <<(s * n) \div g, (s * d) \div g>>

Rat(n, d) == RNorm(n, d)
RInt(i) == <<i, 1>>
RZero == RInt(0)
ROne == RInt(1)

RAdd(a, b) == RNorm(a[1] * b[2] + b[1] * a[2], a[2] * b[2])
RNeg(a) == <<-a[1], a[2]>>
RSub(a, b) == RNorm(a[1] * b[2] - b[1] * a[2], a[2] * b[2])
RMul(a, b) == RNorm(a[1] * b[1], a[2] * b[2])
RDiv(a, b) == RNorm(a[1] * b[2], a[2] * b[1])
RLt(a, b) == a[1] * b[2] < b[1] * a[2]
RLe(a, b) == a[1] * b[2] <= b[1] * a[2]
RAbs(a) == <<Abs(a[1]), a[2]>>
RMin(a, b) == IF RLe(a, b) THEN a ELSE b
\* np.floor
RFloor(a) == a[1] \div a[2]
\* Python's and numpy's % with a positive modulus: the result is in [0, m)
RMod(a, m) == RSub(a, RMul(m, RInt(RFloor(RDiv(a, m)))))

RECURSIVE ISqrtIn(_, _, _)
ISqrtIn(n, lo, hi) ==
    IF lo >= hi THEN lo
    ELSE LET mid == (lo + hi + 1) \div 2
         IN  IF mid * mid <= n THEN ISqrtIn(n, mid, hi) ELSE ISqrtIn(n, lo, mid - 1)
ISqrt(n) == ISqrtIn(n, 0, IF n < 40000 THEN n ELSE 40000)

\* math.sqrt of a non-negative rational: exact when rational, else rounded down
RSqrt(a) ==
    LET sn == ISqrt(a[1])
        sd == ISqrt(a[2])
    IN  IF sn * sn = a[1] /\ sd * sd = a[2] THEN Rat(sn, sd)
        ELSE Rat(ISqrt((a[1] * SqrtDen * SqrtDen) \div a[2]), SqrtDen)

RECURSIVE RSumRange(_, _, _)
\* sum of f[lo] .. f[hi], by halves
RSumRange(f, lo, hi) ==
    IF lo > hi THEN RZero
    ELSE IF lo = hi THEN f[lo]
    ELSE LET mid == (lo + hi) \div 2
         IN  RAdd(RSumRange(f, lo, mid), RSumRange(f, mid + 1, hi))
\* sum of f[0] .. f[k-1]
RSumTo(f, k) == RSumRange(f, 0, k - 1)

\* a numpy array held by value: its elements are computed once, when it is built
Array(f) == CHOOSE h \in {f} : h = h

---------------------------------------------------------------------------
(* give_Eulerian_Lagrangian_Distance, element-wise *)

\* the distance without the periodic minimum of line 223
Distance_NoWrap(x, y, L) == RAbs(RSub(x, y))

give_Eulerian_Lagrangian_Distance(x, y, L) ==
    LET distance == RAbs(RSub(x, y))
    IN  RMin(distance, RSub(L, distance))

(* give_Delta_Kernel: one element of the loop body.  delta aliases RMAT, so an
   element that matches neither branch keeps the value r it was given. *)
DeltaElement(x, dx) ==
    LET r == RDiv(RAbs(x), dx)
        two_r == RMul(RInt(2), r)
        four_r == RMul(RInt(4), r)
        four_rr == RMul(four_r, r)
        eight_dx == RMul(RInt(8), dx)
    IN  IF RLt(r, ROne)
        THEN RDiv(RAdd(RSub(RInt(3), two_r),
                       RSqrt(RSub(RAdd(ROne, four_r), four_rr))), eight_dx)
        ELSE IF RLt(r, RInt(2)) /\ RLe(ROne, r)
        THEN RDiv(RSub(RSub(RInt(5), two_r),
                       RSqrt(RSub(RAdd(RInt(-7), RMul(RInt(12), r)), four_rr))), eight_dx)
        ELSE r

\* give_Delta_Kernel over a 2D array x
give_Delta_Kernel(x, dx) ==
    [ii \in DOMAIN x |-> [jj \in DOMAIN x[ii] |-> DeltaElement(x[ii][jj], dx)]]

(* give_1D_NonZero_Delta_Indices: for each Lagrangian point a row of supp
   indices.  The stand-in below drops the final "% N". *)
Indices_NoWrap(lagPts_j, N, dx, supp) ==
    [p \in DOMAIN lagPts_j |->
        [c \in 0 .. supp - 1 |->
            LET ind_Aux == RInt(RFloor(RAdd(RDiv(lagPts_j[p], dx), ROne)))
                off == RAdd(RAdd(Rat(-supp, 2), ROne), RInt(c))
            IN  RSub(RAdd(ind_Aux, off), ROne)]]

give_1D_NonZero_Delta_Indices(lagPts_j, N, dx, supp) ==
    [p \in DOMAIN lagPts_j |->
        [c \in 0 .. supp - 1 |->
            LET ind_Aux == RInt(RFloor(RAdd(RDiv(lagPts_j[p], dx), ROne)))
                off == RAdd(RAdd(Rat(-supp, 2), ROne), RInt(c))
            IN  RMod(RSub(RAdd(ind_Aux, off), ROne), RInt(N))]]

---------------------------------------------------------------------------
(* Inputs of the kernel-level calls *)

Supps == {s \in 2 .. MaxSupp : s % 2 = 0}
GridSizes == MinN .. MaxN
\* grid spacings dx = L/N for L = 1
Spacings == {Rat(1, n) : n \in GridSizes}
\* offsets within a cell: a grid node, and the two offsets at which every
\* square root the kernel takes (lines 263, 265) is rational
CellFractions == {RZero, Rat(2, 5), Rat(3, 5)}
\* the coordinate (c + f)*dx
Coord(c, f, dx) == RMul(RAdd(RInt(c), f), dx)
\* kernel arguments of either sign, |x|/dx = 2 included
KernelArgs(dx) ==
    {Coord(c, f, dx) : c \in -(MaxCells + 1) .. MaxCells, f \in CellFractions}
\* Lagrangian coordinates from below 0 to above L = N*dx
LagCoords(N, dx) == {Coord(c, f, dx) : c \in -1 .. N, f \in CellFractions}

\* the calls a run may make: Init draws one, the action applies it
KernelCalls ==
    {[op |-> "give_Delta_Kernel", done |-> FALSE, dx |-> dx,
      x |-> [ii \in 0 .. 0 |-> [jj \in 0 .. 1 |-> IF jj = 0 THEN a ELSE b]]] :
        dx \in Spacings, a \in KernelArgs(Rat(1, MinN)), b \in KernelArgs(Rat(1, MinN))}
IndexCalls ==
    UNION {{[op |-> "give_1D_NonZero_Delta_Indices", done |-> FALSE,
             lagPts_j |-> [i \in 0 .. 0 |-> p], N |-> N, dx |-> Rat(1, N),
             supp |-> supp] : p \in LagCoords(N, Rat(1, N)), supp \in Supps} :
           N \in GridSizes}

KInit == kcall \in KernelCalls \cup IndexCalls

CallDeltaKernel ==
    /\ kcall.op = "give_Delta_Kernel"
    /\ ~kcall.done
    /\ kcall' = [op |-> kcall.op, done |-> TRUE, dx |-> kcall.dx, x |-> kcall.x,
                 ret |-> give_Delta_Kernel(kcall.x, kcall.dx)]

CallIndices ==
    /\ kcall.op = "give_1D_NonZero_Delta_Indices"
    /\ ~kcall.done
    /\ kcall' = [op |-> kcall.op, done |-> TRUE, lagPts_j |-> kcall.lagPts_j,
                 N |-> kcall.N, dx |-> kcall.dx, supp |-> kcall.supp,
                 ret |-> give_1D_NonZero_Delta_Indices(kcall.lagPts_j, kcall.N,
                                                      kcall.dx, kcall.supp)]

---------------------------------------------------------------------------
(* Lagrangian point advection *)

\* astype('int') of a non-negative index value
AsInt(a) == RFloor(a)

\* give_NonZero_Delta_Indices_XY: (xInds, yInds), each Nb x supp^2
give_NonZero_Delta_Indices_XY(xLag, yLag, Nx, Ny, dx, dy, supp) ==
    LET xIndsAux == give_1D_NonZero_Delta_Indices(xLag, Nx, dx, supp)
        yIndsAux == give_1D_NonZero_Delta_Indices(yLag, Ny, dy, supp)
        \* np.tile(xIndsAux, (1, supp))
        xInds == [p \in DOMAIN xLag |->
                    [c \in 0 .. supp * supp - 1 |-> AsInt(xIndsAux[p][c % supp])]]
        \* np.repeat(yIndsAux, supp, axis=1)
        yInds == [p \in DOMAIN yLag |->
                    [c \in 0 .. supp * supp - 1 |-> AsInt(yIndsAux[p][c \div supp])]]
    IN  <<xInds, yInds>>

\* lines 93-102 for one axis: distances between x[inds] and the reduced positions
StencilDistance(x, inds, L_H, L) ==
    [p \in DOMAIN inds |->
        [c \in DOMAIN inds[p] |->
            give_Eulerian_Lagrangian_Distance(x[inds[p][c]], RMod(L_H[p], L), L)]]

\* give_Me_Perturbed_Distance: (move_X, move_Y)
give_Me_Perturbed_Distance(u, v, dx, dy, delta_X, delta_Y, xInds, yInds) ==
    LET mat_X == [p \in DOMAIN xInds |-> [c \in DOMAIN xInds[p] |->
                    RMul(RMul(u[yInds[p][c]][xInds[p][c]], delta_X[p][c]), delta_Y[p][c])]]
        mat_Y == [p \in DOMAIN xInds |-> [c \in DOMAIN xInds[p] |->
                    RMul(RMul(v[yInds[p][c]][xInds[p][c]], delta_X[p][c]), delta_Y[p][c])]]
        cnt(p) == Cardinality(DOMAIN xInds[p])
        move_X == [p \in DOMAIN xInds |-> RMul(RSumTo(mat_X[p], cnt(p)), RMul(dx, dy))]
        move_Y == [p \in DOMAIN xInds |-> RMul(RSumTo(mat_Y[p], cnt(p)), RMul(dx, dy))]
    IN  <<move_X, move_Y>>

\* lines 89-106: the support indices, the periodic distances and the kernel values
MoveStencil(xL_H, yL_H, x, y, grid_Info) ==
    LET inds == Array(give_NonZero_Delta_Indices_XY(xL_H, yL_H, grid_Info.Nx, grid_Info.Ny,
                                                    grid_Info.dx, grid_Info.dy, grid_Info.supp))
        distX == Array(StencilDistance(x, inds[1], xL_H, grid_Info.Lx))
        distY == Array(StencilDistance(y, inds[2], yL_H, grid_Info.Ly))
    IN  [xInds |-> inds[1], yInds |-> inds[2], distX |-> distX, distY |-> distY,
         delta_X |-> Array(give_Delta_Kernel(distX, grid_Info.dx)),
         delta_Y |-> Array(give_Delta_Kernel(distY, grid_Info.dy))]

\* a stand-in that starts the update from the current instead of the previous position
Move_FromCurrent(u, v, xL_P, yL_P, xL_H, yL_H, x, y, dt, grid_Info, porous_Yes) ==
    LET st == Array(MoveStencil(xL_H, yL_H, x, y, grid_Info))
        move == Array(give_Me_Perturbed_Distance(u, v, grid_Info.dx, grid_Info.dy,
                          st.delta_X, st.delta_Y, st.xInds, st.yInds))
        xL_Next == [p \in DOMAIN xL_P |-> RAdd(xL_H[p], RMul(dt, move[1][p]))]
        yL_Next == [p \in DOMAIN yL_P |-> RAdd(yL_H[p], RMul(dt, move[2][p]))]
    IN  IF ~porous_Yes
        THEN <<[p \in DOMAIN xL_P |-> RMod(xL_Next[p], grid_Info.Lx)],
               [p \in DOMAIN yL_P |-> RMod(yL_Next[p], grid_Info.Ly)]>>
        ELSE <<xL_Next, yL_Next>>

\* please_Move_Lagrangian_Point_Positions: (xL_Next, yL_Next)
please_Move_Lagrangian_Point_Positions(u, v, xL_P, yL_P, xL_H, yL_H, x, y, dt, grid_Info, porous_Yes) ==
    LET st == Array(MoveStencil(xL_H, yL_H, x, y, grid_Info))
        move == Array(give_Me_Perturbed_Distance(u, v, grid_Info.dx, grid_Info.dy,
                          st.delta_X, st.delta_Y, st.xInds, st.yInds))
        xL_Next == [p \in DOMAIN xL_P |-> RAdd(xL_P[p], RMul(dt, move[1][p]))]
        yL_Next == [p \in DOMAIN yL_P |-> RAdd(yL_P[p], RMul(dt, move[2][p]))]
    IN  IF ~porous_Yes
        THEN <<[p \in DOMAIN xL_P |-> RMod(xL_Next[p], grid_Info.Lx)],
               [p \in DOMAIN yL_P |-> RMod(yL_Next[p], grid_Info.Ly)]>>
        ELSE <<xL_Next, yL_Next>>

(* Inputs of the point advection *)

\* the Lagrangian points (Nb = 1)
Points == {0}
\* the Eulerian grid coordinates x[i] = i*dx the driver passes as x and y
GridCoords(N, dx) == [i \in 0 .. N - 1 |-> RMul(RInt(i), dx)]
\* grid_Info of an N x N grid on the unit square
GridInfo(N, supp) ==
    [Nx |-> N, Ny |-> N, Lx |-> ROne, Ly |-> ROne, dx |-> Rat(1, N), dy |-> Rat(1, N),
     supp |-> supp, Nb |-> Cardinality(Points), ds |-> Rat(1, 2 * N)]
UniformField(N, c) == [j \in 0 .. N - 1 |-> [i \in 0 .. N - 1 |-> RInt(c)]]
RampField(N) == [j \in 0 .. N - 1 |-> [i \in 0 .. N - 1 |-> RInt(i + 2 * j)]]
VelocityPairs(N) ==
    {<<UniformField(N, 0), UniformField(N, 0)>>, <<UniformField(N, 1), UniformField(N, 0)>>,
     <<RampField(N), UniformField(N, 1)>>}
IsUniform(f, c) == \A j \in DOMAIN f : \A i \in DOMAIN f[j] : f[j][i] = c
\* current (half-step) x coordinates: below 0, on the boundary 0, inside a cell, on a
\* grid node, on the boundary L, and above L; and y coordinates
HalfCoordsX(N) ==
    {Coord(cf[1], cf[2], Rat(1, N)) :
        cf \in {<<-1, Rat(2, 5)>>, <<0, RZero>>, <<1, Rat(2, 5)>>, <<2, RZero>>,
                <<N, RZero>>, <<N, Rat(2, 5)>>}}
HalfCoordsY(N) ==
    {Coord(cf[1], cf[2], Rat(1, N)) :
        cf \in {<<1, Rat(3, 5)>>, <<2, RZero>>, <<N, RZero>>}}
\* previous coordinates, all in [0, L)
PrevCoordsX(N) ==
    {Coord(cf[1], cf[2], Rat(1, N)) :
        cf \in {<<0, RZero>>, <<2, Rat(2, 5)>>, <<N - 1, Rat(3, 5)>>}}
PrevCoordsY(N) == {Coord(2, RZero, Rat(1, N))}
TimeSteps == {Rat(1, 10)}

MoveArgs ==
    UNION {{[grid_Info |-> GridInfo(N, supp), u |-> uv[1], v |-> uv[2],
             xL_H |-> [p \in Points |-> xh], yL_H |-> [p \in Points |-> yh],
             x |-> GridCoords(N, Rat(1, N)), y |-> GridCoords(N, Rat(1, N)),
             dt |-> dt, porous_Yes |-> por] :
              supp \in Supps, uv \in VelocityPairs(N), xh \in HalfCoordsX(N),
              yh \in HalfCoordsY(N), dt \in TimeSteps, por \in BOOLEAN} :
           N \in GridSizes}

LagInit ==
    /\ moveArgs \in MoveArgs
    /\ \E xp \in PrevCoordsX(moveArgs.grid_Info.Nx), yp \in PrevCoordsY(moveArgs.grid_Info.Ny) :
          lag = [xL_P |-> [p \in Points |-> xp], yL_P |-> [p \in Points |-> yp]]
    /\ lastMove = [made |-> FALSE]
    /\ nMoves = 0

\* the driver advances its points: (xL_P, yL_P) = please_Move_...(...)
Move ==
    /\ nMoves < MaxMoves
    /\ \E a \in {moveArgs} :
        \E next \in {please_Move_Lagrangian_Point_Positions(a.u, a.v, lag.xL_P, lag.yL_P,
                          a.xL_H, a.yL_H, a.x, a.y, a.dt, a.grid_Info, a.porous_Yes)} :
           /\ lastMove' = [made |-> TRUE, xL_P |-> lag.xL_P, yL_P |-> lag.yL_P,
                           xL_Next |-> next[1], yL_Next |-> next[2]]
           /\ lag' = [xL_P |-> next[1], yL_P |-> next[2]]
    /\ nMoves' = nMoves + 1
    /\ UNCHANGED moveArgs

---------------------------------------------------------------------------
(* Massive boundary integrator *)

(* please_Move_Massive_Boundary.  The column assignments write into the array
   the caller passed, and that same array is returned: "mass_info" is the
   caller's array after the call, "ret" the returned (mass_info, massLagsOld). *)
please_Move_Massive_Boundary(dt_step, mass_info_arg, mVelocity_arg) ==
    LET massLagsOld == [i \in DOMAIN mass_info_arg |->
                           <<mass_info_arg[i][1], mass_info_arg[i][2]>>]
        updated == [i \in DOMAIN mass_info_arg |->
                       [mass_info_arg[i] EXCEPT
                           ![1] = RAdd(mass_info_arg[i][1], RMul(dt_step, mVelocity_arg[i][0])),
                           ![2] = RAdd(mass_info_arg[i][2], RMul(dt_step, mVelocity_arg[i][1]))]]
    IN  [mass_info |-> updated, ret |-> <<updated, massLagsOld>>]

\* g of line 374
g == Rat(980665, 100000)

(* please_Update_Massive_Boundary_Velocity: the set of outcomes of a call.
   Indexing F_Mass_Bnd with ids taken from the float array mass_info raises
   IndexError where numpy refuses non-integer indices; otherwise the right-hand
   side is computed and the store into mVelocity_h, a name bound nowhere,
   raises NameError.  No path reaches the return statement. *)
please_Update_Massive_Boundary_Velocity(dt_step, mass_info_arg, mVelocity_arg, F_Mass_Bnd, gravity_Info) ==
    {[status |-> "raise", exc |-> e] : e \in {"IndexError", "NameError"}}

\* the single massive point's record: lagIndex, x, y, stiffness, mass
MassCoords == {Rat(k, 4) : k \in {0, 1, 6}}
Velocities == {RInt(k) : k \in -1 .. 1}
MassInfos ==
    {[i \in Points |-> [c \in 0 .. 4 |->
        CASE c = 0 -> RInt(id) [] c = 1 -> x0 [] c = 2 -> y0 [] c = 3 -> ROne
          [] OTHER -> RInt(m)]] :
        id \in 0 .. 1, x0 \in MassCoords, y0 \in MassCoords, m \in 1 .. 2}
MassVelocities ==
    {[i \in Points |-> [c \in 0 .. 1 |-> IF c = 0 THEN vx ELSE vy]] :
        vx \in Velocities, vy \in Velocities}
Forces == {[i \in 0 .. 1 |-> [c \in 0 .. 1 |-> RInt(f * (i + c))]] : f \in 0 .. 1}
Gravities == {<<0, RZero, ROne>>, <<1, RZero, RInt(-1)>>}

MassInit ==
    /\ massArgs \in {[dt_step |-> dt, F_Mass_Bnd |-> f, gravity_Info |-> gi] :
                        dt \in {Rat(1, 10)}, f \in Forces, gi \in Gravities}
    /\ mass_info \in MassInfos
    /\ mVelocity \in MassVelocities
    /\ lastMass = [op |-> "none"]
    /\ nMass = 0

\* the driver calls please_Move_Massive_Boundary(dt, mass_info, mVelocity)
MoveMassive ==
    /\ nMass < MaxMassSteps
    /\ LET r == please_Move_Massive_Boundary(massArgs.dt_step, mass_info, mVelocity)
       IN  /\ mass_info' = r.mass_info
           /\ lastMass' = [op |-> "please_Move_Massive_Boundary", status |-> "return",
                           before |-> mass_info, ret |-> r.ret]
    /\ nMass' = nMass + 1
    /\ UNCHANGED <<massArgs, mVelocity>>

\* the driver calls please_Update_Massive_Boundary_Velocity(...)
UpdateMassiveVelocity ==
    /\ lastMass.op # "please_Update_Massive_Boundary_Velocity"
    /\ \E out \in please_Update_Massive_Boundary_Velocity(massArgs.dt_step, mass_info,
                      mVelocity, massArgs.F_Mass_Bnd, massArgs.gravity_Info) :
          lastMass' = [op |-> "please_Update_Massive_Boundary_Velocity",
                       status |-> out.status, exc |-> out.exc]
    /\ UNCHANGED <<massArgs, mass_info, mVelocity, nMass>>

---------------------------------------------------------------------------
(* Finite differences.  A field u of shape (rows, cols), rows >= 2, is a
   function [0 .. rows-1 -> [0 .. cols-1 -> rational]].  A call returns
   [status |-> "return", value, printed] or raises an exception of numpy's. *)

Rows(u) == Cardinality(DOMAIN u)
Cols(u) == Cardinality(DOMAIN u[0])
Zeros(n) == [j \in 0 .. n - 1 |-> [i \in 0 .. n - 1 |-> RZero]]

\* D with a last column or row that does not wrap to index 0
D_OneSidedEdge(u, dz, string) ==
    LET length == Rows(u)
        two_dz == RMul(RInt(2), dz)
    IN  IF string = "x"
        THEN \* u[:,length-1] needs at least length columns
             IF Cols(u) < length THEN [status |-> "raise", exc |-> "IndexError"]
             ELSE [status |-> "return", printed |-> FALSE,
                   value |-> [j \in 0 .. length - 1 |-> [i \in 0 .. length - 1 |->
                       IF i = 0 THEN RDiv(RSub(u[j][1], u[j][length - 1]), two_dz)
                       ELSE IF i = length - 1
                       THEN RDiv(RSub(u[j][length - 1], u[j][length - 2]), two_dz)
                       ELSE RDiv(RSub(u[j][i + 1], u[j][i - 1]), two_dz)]]]
        ELSE IF string = "y"
        THEN \* a row of u is stored into a row of u_z: equal length, or broadcast from 1
             IF Cols(u) # length /\ Cols(u) # 1
             THEN [status |-> "raise", exc |-> "ValueError"]
             ELSE LET col(i) == IF Cols(u) = 1 THEN 0 ELSE i
                  IN  [status |-> "return", printed |-> FALSE,
                       value |-> [j \in 0 .. length - 1 |-> [i \in 0 .. length - 1 |->
                           IF j = 0
                           THEN RDiv(RSub(u[1][col(i)], u[length - 1][col(i)]), two_dz)
                           ELSE IF j = length - 1
                           THEN RDiv(RSub(u[length - 1][col(i)], u[length - 2][col(i)]), two_dz)
                           ELSE RDiv(RSub(u[j + 1][col(i)], u[j - 1][col(i)]), two_dz)]]]
        ELSE \* the message is printed and the zero array returned
             [status |-> "return", printed |-> TRUE, value |-> Zeros(length)]

D(u, dz, string) ==
    LET length == Rows(u)
        two_dz == RMul(RInt(2), dz)
    IN  IF string = "x"
        THEN \* u[:,length-1] needs at least length columns
             IF Cols(u) < length THEN [status |-> "raise", exc |-> "IndexError"]
             ELSE [status |-> "return", printed |-> FALSE,
                   value |-> [j \in 0 .. length - 1 |-> [i \in 0 .. length - 1 |->
                       IF i = 0 THEN RDiv(RSub(u[j][1], u[j][length - 1]), two_dz)
                       ELSE IF i = length - 1
                       THEN RDiv(RSub(u[j][0], u[j][length - 2]), two_dz)
                       ELSE RDiv(RSub(u[j][i + 1], u[j][i - 1]), two_dz)]]]
        ELSE IF string = "y"
        THEN \* a row of u is stored into a row of u_z: equal length, or broadcast from 1
             IF Cols(u) # length /\ Cols(u) # 1
             THEN [status |-> "raise", exc |-> "ValueError"]
             ELSE LET col(i) == IF Cols(u) = 1 THEN 0 ELSE i
                  IN  [status |-> "return", printed |-> FALSE,
                       value |-> [j \in 0 .. length - 1 |-> [i \in 0 .. length - 1 |->
                           IF j = 0
                           THEN RDiv(RSub(u[1][col(i)], u[length - 1][col(i)]), two_dz)
                           ELSE IF j = length - 1
                           THEN RDiv(RSub(u[0][col(i)], u[length - 2][col(i)]), two_dz)
                           ELSE RDiv(RSub(u[j + 1][col(i)], u[j - 1][col(i)]), two_dz)]]]
        ELSE \* the message is printed and the zero array returned
             [status |-> "return", printed |-> TRUE, value |-> Zeros(length)]

\* DD with a first column or row that does not wrap to the last index
DD_OneSidedEdge(u, dz, string) ==
    LET length == Rows(u)
        dz2 == RMul(dz, dz)
        st(a, b, c) == RDiv(RAdd(RSub(a, RMul(RInt(2), b)), c), dz2)
    IN  IF string = "x"
        THEN IF Cols(u) < length THEN [status |-> "raise", exc |-> "IndexError"]
             ELSE [status |-> "return", printed |-> FALSE,
                   value |-> [j \in 0 .. length - 1 |-> [i \in 0 .. length - 1 |->
                       IF i = 0 THEN st(u[j][1], u[j][0], u[j][0])
                       ELSE IF i = length - 1
                       THEN st(u[j][0], u[j][length - 1], u[j][length - 2])
                       ELSE st(u[j][i + 1], u[j][i], u[j][i - 1])]]]
        ELSE IF string = "y"
        THEN IF Cols(u) # length /\ Cols(u) # 1
             THEN [status |-> "raise", exc |-> "ValueError"]
             ELSE LET col(i) == IF Cols(u) = 1 THEN 0 ELSE i
                  IN  [status |-> "return", printed |-> FALSE,
                       value |-> [j \in 0 .. length - 1 |-> [i \in 0 .. length - 1 |->
                           IF j = 0
                           THEN st(u[1][col(i)], u[0][col(i)], u[0][col(i)])
                           ELSE IF j = length - 1
                           THEN st(u[0][col(i)], u[length - 1][col(i)], u[length - 2][col(i)])
                           ELSE st(u[j + 1][col(i)], u[j][col(i)], u[j - 1][col(i)])]]]
        ELSE [status |-> "return", printed |-> TRUE, value |-> Zeros(length)]

DD(u, dz, string) ==
    LET length == Rows(u)
        dz2 == RMul(dz, dz)
        st(a, b, c) == RDiv(RAdd(RSub(a, RMul(RInt(2), b)), c), dz2)
    IN  IF string = "x"
        THEN IF Cols(u) < length THEN [status |-> "raise", exc |-> "IndexError"]
             ELSE [status |-> "return", printed |-> FALSE,
                   value |-> [j \in 0 .. length - 1 |-> [i \in 0 .. length - 1 |->
                       IF i = 0 THEN st(u[j][1], u[j][0], u[j][length - 1])
                       ELSE IF i = length - 1
                       THEN st(u[j][0], u[j][length - 1], u[j][length - 2])
                       ELSE st(u[j][i + 1], u[j][i], u[j][i - 1])]]]
        ELSE IF string = "y"
        THEN IF Cols(u) # length /\ Cols(u) # 1
             THEN [status |-> "raise", exc |-> "ValueError"]
             ELSE LET col(i) == IF Cols(u) = 1 THEN 0 ELSE i
                  IN  [status |-> "return", printed |-> FALSE,
                       value |-> [j \in 0 .. length - 1 |-> [i \in 0 .. length - 1 |->
                           IF j = 0
                           THEN st(u[1][col(i)], u[0][col(i)], u[length - 1][col(i)])
                           ELSE IF j = length - 1
                           THEN st(u[0][col(i)], u[length - 1][col(i)], u[length - 2][col(i)])
                           ELSE st(u[j + 1][col(i)], u[j][col(i)], u[j - 1][col(i)])]]]
        ELSE [status |-> "return", printed |-> TRUE, value |-> Zeros(length)]


(* please_Update_Adv_Diff_Concentration.  "C" is the caller's array after the
   call (the assignment in line 526 rebinds the local name to a new array),
   "out" the outcome of the call. *)
please_Update_Adv_Diff_Concentration(C_arg, dt, dx, dy, uX, uY, k) ==
    LET Cx == D(C_arg, dx, "x")
        Cy == D(C_arg, dy, "y")
        Cxx == DD(C_arg, dx, "x")
        Cyy == DD(C_arg, dy, "y")
    IN  IF Cx.status = "raise" THEN [C |-> C_arg, out |-> Cx]
        ELSE IF Cy.status = "raise" THEN [C |-> C_arg, out |-> Cy]
        ELSE [C |-> C_arg,
              out |-> [status |-> "return",
                       value |-> [j \in DOMAIN C_arg |-> [i \in DOMAIN C_arg[j] |->
                           RAdd(C_arg[j][i],
                                RMul(dt, RSub(RSub(RMul(k, RAdd(Cxx.value[j][i], Cyy.value[j][i])),
                                                   RMul(uX[j][i], Cx.value[j][i])),
                                              RMul(uY[j][i], Cy.value[j][i]))))]]]]

(* Inputs of the finite-difference and transport calls *)

\* fields a*i + b*j plus a bump of height h at (p, q)
Fields(rows, cols) ==
    {[j \in 0 .. rows - 1 |-> [i \in 0 .. cols - 1 |->
        RInt(a * i + b * j + (IF j = p /\ i = q THEN h ELSE 0))]] :
        a \in 0 .. 1, b \in 0 .. 1, h \in {0, 3}, p \in 0 .. rows - 1, q \in 0 .. cols - 1}
Steps == {Rat(1, 2), ROne}
Axes == {"x", "y", "z"}

DerivativeCalls ==
    UNION {UNION {{[op |-> op, u |-> u, dz |-> dz, string |-> str] :
                      op \in {"D", "DD"}, u \in Fields(rows, cols), dz \in Steps,
                      str \in Axes} :
                  cols \in 1 .. MaxCols} :
           rows \in 2 .. MaxRows}
TransportCalls ==
    UNION {{[op |-> "please_Update_Adv_Diff_Concentration", C0 |-> c, dt |-> Rat(1, 10),
             dx |-> dz, dy |-> dz, uX |-> UniformField(n, w), uY |-> UniformField(n, w),
             k |-> RInt(kk)] :
               c \in Fields(n, n), dz \in Steps, w \in 0 .. 1, kk \in 0 .. 2} :
           n \in 2 .. MaxRows}

FDInit ==
    /\ fdArgs \in DerivativeCalls \cup TransportCalls
    /\ C = IF fdArgs.op = "please_Update_Adv_Diff_Concentration" THEN fdArgs.C0
           ELSE Zeros(2)
    /\ lastFD = [op |-> "none"]
    /\ nAD = 0

CallD ==
    /\ fdArgs.op = "D"
    /\ lastFD.op = "none"
    /\ lastFD' = [op |-> "D", out |-> D(fdArgs.u, fdArgs.dz, fdArgs.string)]
    /\ UNCHANGED <<fdArgs, C, nAD>>

CallDD ==
    /\ fdArgs.op = "DD"
    /\ lastFD.op = "none"
    /\ lastFD' = [op |-> "DD", out |-> DD(fdArgs.u, fdArgs.dz, fdArgs.string)]
    /\ UNCHANGED <<fdArgs, C, nAD>>

\* the driver's step C = please_Update_Adv_Diff_Concentration(C, ...)
UpdateConcentration ==
    /\ fdArgs.op = "please_Update_Adv_Diff_Concentration"
    /\ nAD < MaxADSteps
    /\ LET a == fdArgs
           r == please_Update_Adv_Diff_Concentration(C, a.dt, a.dx, a.dy, a.uX, a.uY, a.k)
       IN  /\ lastFD' = [op |-> a.op, before |-> C, after |-> r.C, out |-> r.out]
           /\ C' = IF r.out.status = "return" THEN r.out.value ELSE C
    /\ nAD' = nAD + 1
    /\ UNCHANGED fdArgs

---------------------------------------------------------------------------
(* Specifications: one per component; the variables of the other components
   stay at their idle values. *)

KIdle == kcall = [op |-> "none", done |-> TRUE]
LagIdle ==
    /\ moveArgs = [porous_Yes |-> FALSE]
    /\ lag = [xL_P |-> <<>>, yL_P |-> <<>>]
    /\ lastMove = [made |-> FALSE]
    /\ nMoves = MaxMoves
MassIdle ==
    /\ massArgs = [dt_step |-> RZero]
    /\ mass_info = <<>>
    /\ mVelocity = <<>>
    /\ lastMass = [op |-> "none"]
    /\ nMass = MaxMassSteps
FDIdle ==
    /\ fdArgs = [op |-> "none"]
    /\ C = Zeros(2)
    /\ lastFD = [op |-> "none"]
    /\ nAD = MaxADSteps

kvars == <<kcall>>
lagvars == <<moveArgs, lag, lastMove, nMoves>>
massvars == <<massArgs, mass_info, mVelocity, lastMass, nMass>>
fdvars == <<fdArgs, C, lastFD, nAD>>

KernelInit == KInit /\ LagIdle /\ MassIdle /\ FDIdle
KernelNext ==
    \/ CallDeltaKernel /\ UNCHANGED <<lagvars, massvars, fdvars>>
    \/ CallIndices /\ UNCHANGED <<lagvars, massvars, fdvars>>
SpecKernel == KernelInit /\ [][KernelNext]_vars

LagrangianInit == KIdle /\ LagInit /\ MassIdle /\ FDIdle
LagrangianNext == Move /\ UNCHANGED <<kvars, massvars, fdvars>>
SpecLagrangian == LagrangianInit /\ [][LagrangianNext]_vars

MassiveInit == KIdle /\ LagIdle /\ MassInit /\ FDIdle
MassiveNext ==
    \/ MoveMassive /\ UNCHANGED <<kvars, lagvars, fdvars>>
    \/ UpdateMassiveVelocity /\ UNCHANGED <<kvars, lagvars, fdvars>>
SpecMassive == MassiveInit /\ [][MassiveNext]_vars

GridInit == KIdle /\ LagIdle /\ MassIdle /\ FDInit
GridNext ==
    \/ CallD /\ UNCHANGED <<kvars, lagvars, massvars>>
    \/ CallDD /\ UNCHANGED <<kvars, lagvars, massvars>>
    \/ UpdateConcentration /\ UNCHANGED <<kvars, lagvars, massvars>>
SpecGrid == GridInit /\ [][GridNext]_vars

---------------------------------------------------------------------------
(* Properties of the kernel-level functions *)

KernelDone == kcall.op = "give_Delta_Kernel" /\ kcall.done
IndicesDone == kcall.op = "give_1D_NonZero_Delta_Indices" /\ kcall.done

\* C2: give_Delta_Kernel returns 0 for every element whose scaled distance
\* r = |x|/dx is at least 2, the element at r = 2 included.
C2_KernelZeroFromTwo ==
    KernelDone =>
        \A ii \in DOMAIN kcall.x : \A jj \in DOMAIN kcall.x[ii] :
            RLe(RInt(2), RDiv(RAbs(kcall.x[ii][jj]), kcall.dx))
                => kcall.ret[ii][jj] = RZero

\* floor(p/dx + 1) of a rational coordinate, in integers
BaseIndex(p, dx) == ((p[1] * dx[2]) \div (p[2] * dx[1])) + 1

\* C3: for N >= supp, give_1D_NonZero_Delta_Indices returns for a point exactly
\* supp indices, all in 0..N-1 and pairwise distinct, namely
\* ((floor(p/dx + 1) + o) - 1) mod N for the offsets o = -supp/2+1 .. supp/2.
C3_SupportIndices ==
    (IndicesDone /\ kcall.N >= kcall.supp) =>
        \A p \in DOMAIN kcall.lagPts_j :
            LET row == kcall.ret[p]
                base == BaseIndex(kcall.lagPts_j[p], kcall.dx)
            IN  /\ DOMAIN row = 0 .. kcall.supp - 1
                /\ \A c \in DOMAIN row :
                      /\ row[c][2] = 1
                      /\ row[c][1] \in 0 .. kcall.N - 1
                      /\ row[c][1] = ((base + (c + 1 - kcall.supp \div 2)) - 1) % kcall.N
                /\ \A c, d \in DOMAIN row : c # d => row[c] # row[d]

\* a call whose indices wrap around the end of the grid
C3_Witness ==
    /\ IndicesDone
    /\ kcall.N >= kcall.supp
    /\ kcall.supp >= 4
    /\ \E c \in 0 .. kcall.supp - 2 : kcall.ret[0][c][1] > kcall.ret[0][c + 1][1]

---------------------------------------------------------------------------
(* Properties of the point advection *)

InDomain(f, L) == \A p \in DOMAIN f : RLe(RZero, f[p]) /\ RLt(f[p], L)
Shifted(f, k, L) == [p \in DOMAIN f |-> RAdd(f[p], RMul(RInt(k), L))]
\* the stencil of the call recorded in lastMove
LastStencil ==
    MoveStencil(moveArgs.xL_H, moveArgs.yL_H, moveArgs.x, moveArgs.y, moveArgs.grid_Info)
\* the gathered weights delta_X*delta_Y*dx*dy of point p, summed
WeightSum(st, p) ==
    RMul(RSumTo([c \in DOMAIN st.delta_X[p] |-> RMul(st.delta_X[p][c], st.delta_Y[p][c])],
                Cardinality(DOMAIN st.delta_X[p])),
         RMul(moveArgs.grid_Info.dx, moveArgs.grid_Info.dy))

\* C1: in a uniform velocity field (u0, v0) on a non-porous domain every point
\* moves by exactly dt*(u0, v0) modulo the domain, its gathered weights summing
\* to 1, wherever the point lies (a grid node included) and whatever the even
\* support width; stated here for the widths that hold the whole 4-point
\* kernel, supp >= 4.
C1_UniformFieldDisplacement ==
    (lastMove.made /\ ~moveArgs.porous_Yes /\ moveArgs.grid_Info.supp >= 4) =>
        \A u0 \in {moveArgs.u[0][0]}, v0 \in {moveArgs.v[0][0]} :
            (IsUniform(moveArgs.u, u0) /\ IsUniform(moveArgs.v, v0)) =>
                \A st \in {LastStencil} : \A p \in Points :
                    /\ WeightSum(st, p) = ROne
                    /\ lastMove.xL_Next[p] =
                          RMod(RAdd(lastMove.xL_P[p], RMul(moveArgs.dt, u0)),
                               moveArgs.grid_Info.Lx)
                    /\ lastMove.yL_Next[p] =
                          RMod(RAdd(lastMove.yL_P[p], RMul(moveArgs.dt, v0)),
                               moveArgs.grid_Info.Ly)

ZeroVelocity == IsUniform(moveArgs.u, RZero) /\ IsUniform(moveArgs.v, RZero)

\* C8: with a zero velocity field the call returns the previous positions
\* exactly, for previous positions in [0,Lx) x [0,Ly), any current position,
\* any even supp and either value of the porous flag.
C8_ZeroVelocityKeepsPositions ==
    (/\ lastMove.made
     /\ ZeroVelocity
     /\ InDomain(lastMove.xL_P, moveArgs.grid_Info.Lx)
     /\ InDomain(lastMove.yL_P, moveArgs.grid_Info.Ly)) =>
        /\ lastMove.xL_Next = lastMove.xL_P
        /\ lastMove.yL_Next = lastMove.yL_P
        /\ lag.xL_P = lastMove.xL_P
        /\ lag.yL_P = lastMove.yL_P

\* a second call in a row, in a zero field, away from the current position
C8_Witness ==
    /\ lastMove.made
    /\ nMoves >= 2
    /\ ZeroVelocity
    /\ moveArgs.grid_Info.supp >= 4
    /\ moveArgs.xL_H # lastMove.xL_P
    /\ lastMove.xL_Next = lastMove.xL_P
    /\ lastMove.yL_Next = lastMove.yL_P

\* C10: the gather does not change when the current position is shifted by whole
\* periods: the support indices and the periodic distances for p + k*L are those
\* for p, and every gathered node is within (supp/2)*dx of the point.
C10_PeriodicShiftInvariance ==
    lastMove.made =>
        \A a \in {moveArgs} : \A st \in {LastStencil} :
            /\ \A k \in -MaxShift .. MaxShift :
                  \A sh \in {MoveStencil(Shifted(a.xL_H, k, a.grid_Info.Lx),
                                         Shifted(a.yL_H, -k, a.grid_Info.Ly),
                                         a.x, a.y, a.grid_Info)} :
                      /\ sh.xInds = st.xInds
                      /\ sh.yInds = st.yInds
                      /\ sh.distX = st.distX
                      /\ sh.distY = st.distY
            /\ \A p \in Points : \A c \in DOMAIN st.distX[p] :
                  /\ RLe(st.distX[p][c], RMul(Rat(a.grid_Info.supp, 2), a.grid_Info.dx))
                  /\ RLe(st.distY[p][c], RMul(Rat(a.grid_Info.supp, 2), a.grid_Info.dy))

\* a call whose current x coordinate is exactly L, gathering the nodes it would at 0
C10_Witness ==
    /\ lastMove.made
    /\ \A p \in Points : moveArgs.xL_H[p] = moveArgs.grid_Info.Lx
    /\ \A a \in {moveArgs} :
          MoveStencil([p \in Points |-> RZero], a.yL_H, a.x, a.y, a.grid_Info).xInds
              = LastStencil.xInds
    /\ \E c \in DOMAIN LastStencil.xInds[0] : LastStencil.xInds[0][c] = moveArgs.grid_Info.Nx - 1

---------------------------------------------------------------------------
(* Properties of the massive boundary integrator *)

\* velocity - dt*(F_Mass_Bnd[lagIndex]/mass - g_contribution) for every point
ExpectedVelocity ==
    [i \in DOMAIN mVelocity |-> [c \in 0 .. 1 |->
        LET id == RFloor(mass_info[i][0])
            gc == IF massArgs.gravity_Info[1] = 1
                  THEN RMul(g, massArgs.gravity_Info[c + 2]) ELSE RZero
        IN  RSub(mVelocity[i][c],
                 RMul(massArgs.dt_step,
                      RSub(RDiv(massArgs.F_Mass_Bnd[id][c], mass_info[i][4]), gc)))]]

\* C4: please_Update_Massive_Boundary_Velocity completes and returns, for every
\* massive point, velocity - dt*(F_Mass_Bnd[lagIndex]/mass - g_contribution).
C4_VelocityUpdateReturns ==
    lastMass.op = "please_Update_Massive_Boundary_Velocity" =>
        /\ lastMass.status = "return"
        /\ lastMass.ret = ExpectedVelocity

\* C5: please_Move_Massive_Boundary leaves the caller's mass_info holding the
\* pre-update positions; the new positions old + dt*velocity appear only in the
\* returned array, and the returned positionsOld are the pre-update positions.
C5_MoveMassiveIsPure ==
    lastMass.op = "please_Move_Massive_Boundary" =>
        /\ mass_info = lastMass.before
        /\ \A i \in DOMAIN lastMass.before :
              /\ lastMass.ret[2][i] = <<lastMass.before[i][1], lastMass.before[i][2]>>
              /\ lastMass.ret[1][i][1] =
                    RAdd(lastMass.before[i][1], RMul(massArgs.dt_step, mVelocity[i][0]))
              /\ lastMass.ret[1][i][2] =
                    RAdd(lastMass.before[i][2], RMul(massArgs.dt_step, mVelocity[i][1]))

---------------------------------------------------------------------------
(* Properties of the finite differences and of the transport step *)

IsSquare(u) == Rows(u) = Cols(u)
DerivativeDone == lastFD.op \in {"D", "DD"}
TransportDone == lastFD.op = "please_Update_Adv_Diff_Concentration"
\* sum of all elements of a field
FieldSum(f) ==
    RSumTo([j \in DOMAIN f |-> RSumTo(f[j], Cardinality(DOMAIN f[j]))],
           Cardinality(DOMAIN f))

\* C6: D and DD end in an error, and return no array, when the axis tag is
\* neither 'x' nor 'y' or when the input field is not square.
C6_InvalidArgumentsRejected ==
    (DerivativeDone /\ (fdArgs.string \notin {"x", "y"} \/ ~IsSquare(fdArgs.u))) =>
        lastFD.out.status = "raise"

\* the periodic centred reference stencils along the chosen axis
RefD(u, dz, string, j, i) ==
    LET N == Rows(u)
    IN  IF string = "x"
        THEN RDiv(RSub(u[j][(i + 1) % N], u[j][(i + N - 1) % N]), RMul(RInt(2), dz))
        ELSE RDiv(RSub(u[(j + 1) % N][i], u[(j + N - 1) % N][i]), RMul(RInt(2), dz))
RefDD(u, dz, string, j, i) ==
    LET N == Rows(u)
    IN  IF string = "x"
        THEN RDiv(RAdd(RSub(u[j][(i + 1) % N], RMul(RInt(2), u[j][i])),
                       u[j][(i + N - 1) % N]), RMul(dz, dz))
        ELSE RDiv(RAdd(RSub(u[(j + 1) % N][i], RMul(RInt(2), u[j][i])),
                       u[(j + N - 1) % N][i]), RMul(dz, dz))

\* C9: on a square N x N field, N >= 2, D and DD equal the periodic centred
\* reference stencils at every index, the two edges included.
C9_PeriodicStencils ==
    (DerivativeDone /\ IsSquare(fdArgs.u) /\ fdArgs.string \in {"x", "y"}) =>
        /\ lastFD.out.status = "return"
        /\ DOMAIN lastFD.out.value = DOMAIN fdArgs.u
        /\ \A j \in DOMAIN fdArgs.u :
              /\ DOMAIN lastFD.out.value[j] = DOMAIN fdArgs.u[j]
              /\ \A i \in DOMAIN fdArgs.u[j] :
                    lastFD.out.value[j][i] =
                        IF lastFD.op = "D"
                        THEN RefD(fdArgs.u, fdArgs.dz, fdArgs.string, j, i)
                        ELSE RefDD(fdArgs.u, fdArgs.dz, fdArgs.string, j, i)

\* a first derivative of a 3 x 3 field that is not zero on the last column or row
C9_Witness ==
    /\ lastFD.op = "D"
    /\ Rows(fdArgs.u) >= 3
    /\ IsSquare(fdArgs.u)
    /\ fdArgs.string \in {"x", "y"}
    /\ lastFD.out.status = "return"
    /\ \E k \in DOMAIN fdArgs.u :
          \/ fdArgs.string = "x" /\ lastFD.out.value[k][Rows(fdArgs.u) - 1] # RZero
          \/ fdArgs.string = "y" /\ lastFD.out.value[Rows(fdArgs.u) - 1][k] # RZero

NoFlow == IsUniform(fdArgs.uX, RZero) /\ IsUniform(fdArgs.uY, RZero)

===========================================================================
